---- MODULE Spec2Model ----
(***************************************************************************)
(* A model of sivchari/golden: the comparator (comparator/comparator.go),  *)
(* the differ (differ/differ.go), the golden file store and its naming     *)
(* strategy (manager/manager.go) and the assertion entry point             *)
(* (golden.go, options.go).                                                *)
(*                                                                         *)
(* Byte strings are sequences of byte values (ASCII codes).  A decoded     *)
(* JSON value (Go's interface{} after json.Unmarshal) is a record tagged   *)
(* by its dynamic type:                                                    *)
(*   [t |-> "nil"]                      nil                                *)
(*   [t |-> "bool",   v |-> BOOLEAN]    bool                               *)
(*   [t |-> "num",    v |-> Nat]        float64 (whole, non-negative)      *)
(*   [t |-> "str",    v |-> bytes]      string                             *)
(*   [t |-> "arr",    v |-> Seq(value)] []interface{}                      *)
(*   [t |-> "obj",    v |-> [keys -> value]]  map[string]interface{}       *)
(***************************************************************************)
EXTENDS Integers, Sequences, FiniteSets, TLC

VARIABLES
    cmpIn,      \* Comparator.Compare: the comparator's options and the two arguments
    cmpOut,     \* the CompareResult of the call, None before it returns
    cmpPrev     \* the Equal of the call before the documents were edited, or None

VARIABLES
    mgrOf,      \* the Manager each goroutine calls (its Golden's manager, or a shared one)
    pc,         \* where each goroutine is in its call
    call,       \* the call each goroutine is in: mode, filename, value, formatted bytes,
                \* and once it is done what it called and how it ended
    ncalls,     \* calls started so far
    nfaults,    \* system calls failed so far by the environment
    mu,         \* Manager.mu of each Manager: the goroutine holding it, or 0
    locks,      \* Manager.locks of each Manager: the filenames that have a lock
    rw,         \* the state of each per-file sync.RWMutex: its writer (or 0) and readers
    dirExists,  \* the golden file directory exists
    names,      \* the directory: file name -> inode, 0 when there is no such file
    disk,       \* the content of each inode
    fd,         \* the inode each goroutine has open, or 0
    hist,       \* per filename: the initial content and the data of every WriteFile begun
    last        \* per filename: the value of the WriteFile that returned without error
                \* last, None once another WriteFile of it has begun

VARIABLES
    fnIn,       \* the arguments of the library function exercised alone, or None
    fnOut       \* what it has returned so far, or None

cmpVars == <<cmpIn, cmpOut, cmpPrev>>

fnVars == <<fnIn, fnOut>>

storeVars == <<mgrOf, pc, call, ncalls, nfaults, mu, locks, rw, dirExists, names,
               disk, fd, hist, last>>

vars == <<cmpVars, fnVars, storeVars>>

None == [t |-> "none"]

-----------------------------------------------------------------------------
(* Bytes and strings *)

\* White space for bytes.TrimSpace and strings.TrimSpace (unicode.IsSpace on ASCII).
IsSpace(b) == b \in {9, 10, 11, 12, 13, 32}

\* White space for the JSON scanner.
IsJSONSpace(b) == b \in {32, 9, 13, 10}

\* White space for the regular expression class \s.
IsReSpace(b) == b \in {9, 10, 12, 13, 32}

IsDigit(b) == b \in 48..57

\* Go's < on strings: bytewise lexicographic order.
RECURSIVE StrLess(_, _)
StrLess(a, b) ==
    IF b = <<>> THEN FALSE
    ELSE IF a = <<>> THEN TRUE
    ELSE IF a[1] # b[1] THEN a[1] < b[1]
    ELSE StrLess(Tail(a), Tail(b))

\* The least string of a non-empty finite set of strings.
MinStr(S) == CHOOSE a \in S : \A b \in S : a = b \/ StrLess(a, b)

\* The strings of a finite set in increasing order.
RECURSIVE SortedStrs(_)
SortedStrs(S) ==
    IF S = {} THEN <<>>
    ELSE LET m == MinStr(S) IN <<m>> \o SortedStrs(S \ {m})

RECURSIVE Concat(_)
Concat(ss) == IF ss = <<>> THEN <<>> ELSE Head(ss) \o Concat(Tail(ss))

\* ss joined with sep between the elements.
RECURSIVE Join(_, _)
Join(ss, sep) ==
    IF ss = <<>> THEN <<>>
    ELSE IF Len(ss) = 1 THEN ss[1]
    ELSE ss[1] \o sep \o Join(Tail(ss), sep)

\* bytes.TrimSpace / strings.TrimSpace
RECURSIVE TrimLeft(_)
TrimLeft(s) == IF s # <<>> /\ IsSpace(s[1]) THEN TrimLeft(Tail(s)) ELSE s

RECURSIVE TrimRight(_)
TrimRight(s) ==
    IF s # <<>> /\ IsSpace(s[Len(s)]) THEN TrimRight(SubSeq(s, 1, Len(s) - 1)) ELSE s

TrimSpace(s) == TrimRight(TrimLeft(s))

\* The decimal digits of a natural number.
RECURSIVE Decimal(_)
Decimal(n) == IF n < 10 THEN <<48 + n>> ELSE Decimal(n \div 10) \o <<48 + (n % 10)>>

-----------------------------------------------------------------------------
(* Decoded JSON values *)

Nil == [t |-> "nil"]
Bool(b) == [t |-> "bool", v |-> b]
Num(n) == [t |-> "num", v |-> n]
Str(s) == [t |-> "str", v |-> s]
Arr(xs) == [t |-> "arr", v |-> xs]
Obj(f) == [t |-> "obj", v |-> f]

EmptyMap == [k \in {} |-> Nil]

\* m[k] = v on a Go map: an existing key is overwritten.
MapPut(m, k, v) == [x \in DOMAIN m \cup {k} |-> IF x = k THEN v ELSE m[x]]

-----------------------------------------------------------------------------
(* encoding/json: json.Unmarshal into interface{}.  The grammar covers     *)
(* objects, arrays, strings without escapes, whole non-negative numbers    *)
(* and the three literals; a parse result is [ok, v, i], i the index of    *)
(* the first byte after the value.                                         *)

ParseFail == [ok |-> FALSE, v |-> Nil, i |-> 0]
ParseOk(v, i) == [ok |-> TRUE, v |-> v, i |-> i]

RECURSIVE SkipSpace(_, _)
SkipSpace(s, i) == IF i <= Len(s) /\ IsJSONSpace(s[i]) THEN SkipSpace(s, i + 1) ELSE i

HasAt(s, i, lit) == i + Len(lit) - 1 <= Len(s) /\ SubSeq(s, i, i + Len(lit) - 1) = lit

\* s[i] is the opening quote; a control byte or a backslash escape is rejected.
RECURSIVE ScanString(_, _, _)
ScanString(s, i, j) ==
    IF j > Len(s) THEN ParseFail
    ELSE IF s[j] = 34 THEN ParseOk(Str(SubSeq(s, i + 1, j - 1)), j + 1)
    ELSE IF s[j] < 32 \/ s[j] = 92 THEN ParseFail
    ELSE ScanString(s, i, j + 1)

RECURSIVE ScanDigits(_, _, _)
ScanDigits(s, j, acc) ==
    IF j <= Len(s) /\ IsDigit(s[j]) THEN ScanDigits(s, j + 1, acc * 10 + (s[j] - 48))
    ELSE ParseOk(Num(acc), j)

\* s[i] is a digit; a leading 0 must stand alone; a fraction or exponent is
\* outside the grammar modelled here.
ScanNumber(s, i) ==
    LET r == IF s[i] = 48 THEN ParseOk(Num(0), i + 1) ELSE ScanDigits(s, i, 0)
    IN  IF r.i <= Len(s) /\ (IsDigit(s[r.i]) \/ s[r.i] \in {46, 69, 101})
        THEN ParseFail ELSE r

RECURSIVE ParseValue(_, _)
RECURSIVE ParseElements(_, _, _)
RECURSIVE ParseMembers(_, _, _)

\* After '[' or ',': a value, then ',' or ']'.
ParseElements(s, i, acc) ==
    LET r == ParseValue(s, SkipSpace(s, i))
        j == SkipSpace(s, r.i)
    IN  IF ~r.ok \/ j > Len(s) THEN ParseFail
        ELSE IF s[j] = 44 THEN ParseElements(s, j + 1, Append(acc, r.v))
        ELSE IF s[j] = 93 THEN ParseOk(Arr(Append(acc, r.v)), j + 1)
        ELSE ParseFail

\* After '{' or ',': a string key, ':', a value, then ',' or '}'.
ParseMembers(s, i, acc) ==
    LET k == SkipSpace(s, i)
        key == IF k <= Len(s) /\ s[k] = 34 THEN ScanString(s, k, k + 1) ELSE ParseFail
        c == SkipSpace(s, key.i)
        r == IF key.ok /\ c <= Len(s) /\ s[c] = 58
             THEN ParseValue(s, SkipSpace(s, c + 1)) ELSE ParseFail
        j == SkipSpace(s, r.i)
    IN  IF ~r.ok \/ j > Len(s) THEN ParseFail
        ELSE IF s[j] = 44 THEN ParseMembers(s, j + 1, MapPut(acc, key.v.v, r.v))
        ELSE IF s[j] = 125 THEN ParseOk(Obj(MapPut(acc, key.v.v, r.v)), j + 1)
        ELSE ParseFail

ParseValue(s, i) ==
    IF i > Len(s) THEN ParseFail
    ELSE IF s[i] = 123 THEN
        LET j == SkipSpace(s, i + 1)
        IN  IF j <= Len(s) /\ s[j] = 125 THEN ParseOk(Obj(EmptyMap), j + 1)
            ELSE ParseMembers(s, j, EmptyMap)
    ELSE IF s[i] = 91 THEN
        LET j == SkipSpace(s, i + 1)
        IN  IF j <= Len(s) /\ s[j] = 93 THEN ParseOk(Arr(<<>>), j + 1)
            ELSE ParseElements(s, j, <<>>)
    ELSE IF s[i] = 34 THEN ScanString(s, i, i + 1)
    ELSE IF IsDigit(s[i]) THEN ScanNumber(s, i)
    ELSE IF HasAt(s, i, <<110, 117, 108, 108>>) THEN ParseOk(Nil, i + 4)
    ELSE IF HasAt(s, i, <<116, 114, 117, 101>>) THEN ParseOk(Bool(TRUE), i + 4)
    ELSE IF HasAt(s, i, <<102, 97, 108, 115, 101>>) THEN ParseOk(Bool(FALSE), i + 5)
    ELSE ParseFail

\* json.Unmarshal(data, &v): [ok, v]; bytes after the top-level value other
\* than white space are an error.
Unmarshal(s) ==
    LET r == ParseValue(s, SkipSpace(s, 1))
    IN  IF r.ok /\ SkipSpace(s, r.i) > Len(s) THEN [ok |-> TRUE, v |-> r.v]
        ELSE [ok |-> FALSE, v |-> Nil]

-----------------------------------------------------------------------------
(* encoding/json: json.MarshalIndent(v, "", "  ") *)

RECURSIVE Spaces(_)
Spaces(n) == IF n = 0 THEN <<>> ELSE <<32>> \o Spaces(n - 1)

NewlineIndent(depth) == <<10>> \o Spaces(2 * depth)

RECURSIVE MarshalAt(_, _)
MarshalAt(v, depth) ==
    CASE v.t = "nil" -> <<110, 117, 108, 108>>
      [] v.t = "bool" -> IF v.v THEN <<116, 114, 117, 101>> ELSE <<102, 97, 108, 115, 101>>
      [] v.t = "num" -> Decimal(v.v)
      [] v.t = "str" -> <<34>> \o v.v \o <<34>>
      [] v.t = "arr" ->
            IF v.v = <<>> THEN <<91, 93>>
            ELSE <<91>> \o NewlineIndent(depth + 1)
                 \o Join([i \in 1..Len(v.v) |-> MarshalAt(v.v[i], depth + 1)],
                         <<44>> \o NewlineIndent(depth + 1))
                 \o NewlineIndent(depth) \o <<93>>
      [] v.t = "obj" ->
            IF DOMAIN v.v = {} THEN <<123, 125>>
            ELSE LET keys == SortedStrs(DOMAIN v.v)
                 IN  <<123>> \o NewlineIndent(depth + 1)
                     \o Join([i \in 1..Len(keys) |->
                                <<34>> \o keys[i] \o <<34, 58, 32>>
                                \o MarshalAt(v.v[keys[i]], depth + 1)],
                             <<44>> \o NewlineIndent(depth + 1))
                     \o NewlineIndent(depth) \o <<125>>

MarshalIndent(v) == MarshalAt(v, 0)

-----------------------------------------------------------------------------
(* fmt.Sprintf("%v", v) of a decoded JSON value *)

RECURSIVE SprintV(_)
SprintV(v) ==
    CASE v.t = "nil" -> <<60, 110, 105, 108, 62>>
      [] v.t = "bool" -> IF v.v THEN <<116, 114, 117, 101>> ELSE <<102, 97, 108, 115, 101>>
      [] v.t = "num" -> Decimal(v.v)
      [] v.t = "str" -> v.v
      [] v.t = "arr" ->
            <<91>> \o Join([i \in 1..Len(v.v) |-> SprintV(v.v[i])], <<32>>) \o <<93>>
      [] v.t = "obj" ->
            LET keys == SortedStrs(DOMAIN v.v)
            IN  <<109, 97, 112, 91>>
                \o Join([i \in 1..Len(keys) |-> keys[i] \o <<58>> \o SprintV(v.v[keys[i]])],
                        <<32>>)
                \o <<93>>

-----------------------------------------------------------------------------
(* comparator.Comparator.  c is the comparator's Options record            *)
(* [IgnoreOrder, IgnoreWhitespace, CustomCompareFunc, IgnoreFields];       *)
(* CustomCompareFunc is "nil" or the name of a function of two byte        *)
(* strings.                                                                *)

\* The custom comparison functions a caller configures here.
CallCustom(f, expected, actual) ==
    CASE f = "always" -> TRUE
      [] f = "never" -> FALSE
      [] f = "sameLength" -> Len(expected) = Len(actual)

\* regexp.MustCompile(`\s+`).ReplaceAllString(s, " ")
RECURSIVE CollapseSpace(_)
CollapseSpace(s) ==
    IF s = <<>> THEN <<>>
    ELSE IF IsReSpace(s[1]) THEN
        IF Len(s) > 1 /\ IsReSpace(s[2]) THEN CollapseSpace(Tail(s))
        ELSE <<32>> \o CollapseSpace(Tail(s))
    ELSE <<s[1]>> \o CollapseSpace(Tail(s))

\* An isJSON that looks at the first byte without trimming.
isJSON_NoTrim(data) ==
    IF Len(data) = 0 THEN FALSE ELSE data[1] = 123 \/ data[1] = 91

isJSON(data) ==
    LET d == TrimSpace(data)
    IN  IF Len(d) = 0 THEN FALSE ELSE d[1] = 123 \/ d[1] = 91

shouldIgnoreField(c, field) ==
    \E i \in 1..Len(c.IgnoreFields) : field = c.IgnoreFields[i]

\* A normalizeString that drops one white-space byte at each end.
normalizeString_TrimOne(c, s) ==
    IF c.IgnoreWhitespace
    THEN LET a == IF s # <<>> /\ IsSpace(s[1]) THEN Tail(s) ELSE s
             b == IF a # <<>> /\ IsSpace(a[Len(a)]) THEN SubSeq(a, 1, Len(a) - 1) ELSE a
         IN  CollapseSpace(b)
    ELSE s

normalizeString(c, s) ==
    IF c.IgnoreWhitespace THEN CollapseSpace(TrimSpace(s)) ELSE s

preprocessText(c, s) ==
    IF c.IgnoreWhitespace THEN CollapseSpace(TrimSpace(s)) ELSE s

compareValues(a, b) ==
    LET aStr == SprintV(a)
        bStr == SprintV(b)
    IN  IF StrLess(aStr, bStr) THEN -1
        ELSE IF StrLess(bStr, aStr) THEN 1
        ELSE 0

\* The inner loop of the insertion sort sort.Slice runs on a short slice:
\* for j := i; j > a && less(j, j-1); j-- { swap(j, j-1) }
RECURSIVE SortInsert(_, _)
SortInsert(xs, j) ==
    IF j > 1 /\ compareValues(xs[j], xs[j - 1]) < 0
    THEN SortInsert([xs EXCEPT ![j] = xs[j - 1], ![j - 1] = xs[j]], j - 1)
    ELSE xs

\* sort.Slice(normalized, less) with less(i, j) = compareValues(..) < 0, for
\* a slice of at most 12 elements.
RECURSIVE SortSliceFrom(_, _)
SortSliceFrom(xs, i) ==
    IF i > Len(xs) THEN xs ELSE SortSliceFrom(SortInsert(xs, i), i + 1)

SortSlice(xs) == SortSliceFrom(xs, 2)

RECURSIVE normalizeValue(_, _)

\* normalizeObject with the values of the kept keys copied as they are.
normalizeObject_Shallow(c, obj) ==
    [key \in {k \in DOMAIN obj : ~shouldIgnoreField(c, k)} |-> obj[key]]

normalizeObject(c, obj) ==
    [key \in {k \in DOMAIN obj : ~shouldIgnoreField(c, k)} |-> normalizeValue(c, obj[key])]

normalizeArray(c, arr) ==
    LET normalized == [i \in 1..Len(arr) |-> normalizeValue(c, arr[i])]
    IN  IF c.IgnoreOrder THEN SortSlice(normalized) ELSE normalized

normalizeValue(c, v) ==
    CASE v.t = "obj" -> Obj(normalizeObject(c, v.v))
      [] v.t = "arr" -> Arr(normalizeArray(c, v.v))
      [] v.t = "str" -> Str(normalizeString(c, v.v))
      [] OTHER -> v

\* reflect.DeepEqual on decoded JSON values.
RECURSIVE deepEqual(_, _)
deepEqual(a, b) ==
    /\ a.t = b.t
    /\ CASE a.t = "nil" -> TRUE
         [] a.t = "arr" ->
                /\ Len(a.v) = Len(b.v)
                /\ \A i \in 1..Len(a.v) : deepEqual(a.v[i], b.v[i])
         [] a.t = "obj" ->
                /\ DOMAIN a.v = DOMAIN b.v
                /\ \A k \in DOMAIN a.v : deepEqual(a.v[k], b.v[k])
         [] OTHER -> a.v = b.v

CompareResult(equal, details) == [Equal |-> equal, Details |-> details]

\* A compareJSON that parses the actual side first.
compareJSON_ActualFirst(c, expected, actual) ==
    LET e == Unmarshal(expected)
        a == Unmarshal(actual)
    IN  IF ~a.ok THEN CompareResult(FALSE, "Failed to parse actual JSON")
        ELSE IF ~e.ok THEN CompareResult(FALSE, "Failed to parse expected JSON")
        ELSE CompareResult(deepEqual(normalizeValue(c, e.v), normalizeValue(c, a.v)),
                           "JSON semantic comparison")

compareJSON(c, expected, actual) ==
    LET e == Unmarshal(expected)
        a == Unmarshal(actual)
    IN  IF ~e.ok THEN CompareResult(FALSE, "Failed to parse expected JSON")
        ELSE IF ~a.ok THEN CompareResult(FALSE, "Failed to parse actual JSON")
        ELSE CompareResult(deepEqual(normalizeValue(c, e.v), normalizeValue(c, a.v)),
                           "JSON semantic comparison")

compareText(c, expected, actual) ==
    CompareResult(preprocessText(c, expected) = preprocessText(c, actual),
                  "Text comparison with preprocessing")

\* A Compare that tries the JSON comparison before the custom function.
Compare_JSONFirst(c, expected, actual) ==
    IF isJSON(expected) /\ isJSON(actual) THEN compareJSON(c, expected, actual)
    ELSE IF c.CustomCompareFunc # "nil"
    THEN CompareResult(CallCustom(c.CustomCompareFunc, expected, actual),
                       "Custom comparison function")
    ELSE compareText(c, expected, actual)

Compare(c, expected, actual) ==
    IF c.CustomCompareFunc # "nil"
    THEN CompareResult(CallCustom(c.CustomCompareFunc, expected, actual),
                       "Custom comparison function")
    ELSE IF isJSON(expected) /\ isJSON(actual) THEN compareJSON(c, expected, actual)
    ELSE compareText(c, expected, actual)

-----------------------------------------------------------------------------
(* Comparator.Compare as a state machine: a call on two documents, and a   *)
(* second call after the ignored fields of one document were edited.      *)

MaxNum == 2          \* the numbers in the documents are 1..MaxNum
MaxArrLen == 2       \* the longest array at the top of a document

KeyK == <<107>>      \* "k"
KeyA == <<97>>       \* "a"

Nums == {Num(n) : n \in 1..MaxNum}

\* {}, {"a": n}, {"k": n}, {"a": n, "k": m}
FlatObjs == {Obj(f) : f \in UNION {[D -> Nums] : D \in SUBSET {KeyA, KeyK}}}

\* Array elements: the number 1 and the string "1" print alike under %v.
Elems == {Num(1), Str(<<49>>), Obj(KeyK :> Num(1)), Obj(KeyK :> Num(2))}

Arrays == {Arr(xs) : xs \in UNION {[1..n -> Elems] : n \in 0..MaxArrLen}}

\* An ignored key below the top level: in an object, and in an array element.
Nested ==
    {Obj(KeyA :> o) : o \in {Obj(EmptyMap), Obj(KeyK :> Num(1)), Obj(KeyK :> Num(2)),
                             Arr(<<Obj(EmptyMap)>>), Arr(<<Obj(KeyK :> Num(1))>>),
                             Arr(<<Obj(KeyK :> Num(2))>>)}}

Docs == FlatObjs \cup Arrays \cup Nested

CompareOptions ==
    [IgnoreOrder : BOOLEAN, IgnoreWhitespace : {FALSE}, CustomCompareFunc : {"nil"},
     IgnoreFields : {<<>>, <<KeyK>>}]

\* x and y are the same document but for fields named k, at any depth.
RECURSIVE SameButFor(_, _, _)
SameButFor(k, x, y) ==
    /\ x.t = y.t
    /\ CASE x.t = "arr" ->
                /\ Len(x.v) = Len(y.v)
                /\ \A i \in 1..Len(x.v) : SameButFor(k, x.v[i], y.v[i])
         [] x.t = "obj" ->
                /\ DOMAIN x.v \ {k} = DOMAIN y.v \ {k}
                /\ \A f \in DOMAIN x.v \ {k} : SameButFor(k, x.v[f], y.v[f])
         [] OTHER -> x = y

\* The state of the store while the comparator is exercised alone.
StoreIdle ==
    /\ mgrOf = <<>> /\ pc = <<>> /\ call = <<>>
    /\ ncalls = 0 /\ nfaults = 0
    /\ mu = <<>> /\ locks = <<>> /\ rw = <<>>
    /\ dirExists = FALSE /\ names = <<>> /\ disk = <<>> /\ fd = <<>>
    /\ hist = <<>> /\ last = <<>>

\* No library function is exercised alone.
FnIdle == fnIn = None /\ fnOut = None

\* The comparator is not exercised on documents.
CmpIdle == cmpIn = None /\ cmpOut = None /\ cmpPrev = None

\* What a library function exercised alone leaves as it is.
FnFrame == UNCHANGED <<cmpVars, storeVars>>

\* The documents are written the way Golden.formatValue writes a value.
CmpInit ==
    /\ StoreIdle
    /\ FnIdle
    /\ cmpIn \in [c : CompareOptions, ev : Docs, av : Docs]
    /\ cmpOut = None
    /\ cmpPrev = None

CompareCall ==
    /\ cmpOut = None
    /\ cmpOut' = Compare(cmpIn.c, MarshalIndent(cmpIn.ev), MarshalIndent(cmpIn.av))
    /\ UNCHANGED <<cmpIn, cmpPrev, fnVars, storeVars>>

\* A field named by IgnoreFields is added to, removed from or changed in the
\* expected or the actual document, and the documents are compared again.
EditIgnored ==
    /\ cmpOut # None
    /\ cmpPrev = None
    /\ \E i \in 1..Len(cmpIn.c.IgnoreFields), d \in Docs :
          /\ \/ /\ SameButFor(cmpIn.c.IgnoreFields[i], cmpIn.ev, d)
                /\ d # cmpIn.ev
                /\ cmpIn' = [cmpIn EXCEPT !.ev = d]
             \/ /\ SameButFor(cmpIn.c.IgnoreFields[i], cmpIn.av, d)
                /\ d # cmpIn.av
                /\ cmpIn' = [cmpIn EXCEPT !.av = d]
    /\ cmpPrev' = [Equal |-> cmpOut.Equal]
    /\ cmpOut' = None
    /\ UNCHANGED <<fnVars, storeVars>>

CmpNext == CompareCall \/ EditIgnored

SpecCompare == CmpInit /\ [][CmpNext]_vars

-----------------------------------------------------------------------------
(* Claims about Comparator.Compare, under SpecCompare *)

\* y holds the elements of x in some order, at the top level or in a nested array.
RECURSIVE PermutedOf(_, _)
PermutedOf(x, y) ==
    /\ x.t = y.t
    /\ CASE x.t = "arr" ->
                /\ Len(x.v) = Len(y.v)
                /\ \E p \in Permutations(1..Len(x.v)) :
                      \A i \in 1..Len(x.v) : PermutedOf(x.v[i], y.v[p[i]])
         [] x.t = "obj" ->
                /\ DOMAIN x.v = DOMAIN y.v
                /\ \A f \in DOMAIN x.v : PermutedOf(x.v[f], y.v[f])
         [] OTHER -> x = y

\* C9: with IgnoreOrder and no custom compare function, a JSON array and any
\* permutation of its elements compare equal, whatever the types of the elements.
C9_PermutationComparesEqual ==
    ( /\ cmpOut # None
      /\ cmpIn.c.IgnoreOrder
      /\ cmpIn.c.CustomCompareFunc = "nil"
      /\ cmpIn.ev.t = "arr"
      /\ PermutedOf(cmpIn.ev, cmpIn.av) )
    => cmpOut.Equal

\* C10: with no custom compare function, adding, removing or changing a field
\* whose name is excluded, at any depth of either document, leaves the verdict
\* of Compare as it was.
C10_IgnoredFieldKeepsVerdict ==
    (cmpPrev # None /\ cmpOut # None) => cmpOut.Equal = cmpPrev.Equal

\* An excluded field below the top level was edited, the two documents differ
\* as written, and the second comparison returned equal.
C10_Witness ==
    /\ cmpPrev # None
    /\ cmpOut # None
    /\ cmpIn.ev \in Nested
    /\ cmpIn.ev # cmpIn.av
    /\ cmpOut.Equal

-----------------------------------------------------------------------------
(* Comparator.Compare called on byte strings of any shape.                 *)

MaxTextLen == 2      \* the longest byte string compared

\* ' ', '{', '}', '[', ']', '1'
TextBytes == {32, 123, 125, 91, 93, 49}

Texts == UNION {[1..n -> TextBytes] : n \in 0..MaxTextLen}

TextOptions ==
    [IgnoreOrder : {TRUE}, IgnoreWhitespace : BOOLEAN,
     CustomCompareFunc : {"nil", "never", "sameLength"}, IgnoreFields : {<<>>}]

BytesInit ==
    /\ StoreIdle
    /\ CmpIdle
    /\ fnIn \in [fn : {"Compare"}, c : TextOptions, expected : Texts, actual : Texts]
    /\ fnOut = None

CompareBytes ==
    /\ fnIn.fn = "Compare"
    /\ fnOut = None
    /\ fnOut' = Compare(fnIn.c, fnIn.expected, fnIn.actual)
    /\ UNCHANGED fnIn
    /\ FnFrame

SpecBytes == BytesInit /\ [][CompareBytes]_vars

\* The first byte of data that is not white space is '{' or '['.
JSONShaped(data) ==
    \E i \in 1..Len(data) :
        /\ data[i] \in {123, 91}
        /\ \A j \in 1..(i - 1) : IsSpace(data[j])

\* C11: with a custom comparison function configured, Compare returns the
\* function's verdict on the two byte strings as they were passed, whatever
\* their shape and the other options.
C11_CustomTakesPrecedence ==
    (fnOut # None /\ fnIn.c.CustomCompareFunc # "nil")
    => fnOut = [Equal |-> CallCustom(fnIn.c.CustomCompareFunc, fnIn.expected, fnIn.actual),
                Details |-> "Custom comparison function"]

\* Two JSON-shaped strings that do not parse and differ once white space is
\* ignored were found equal by the function that compares their lengths.
C11_Witness ==
    /\ fnOut # None
    /\ fnIn.c.CustomCompareFunc = "sameLength" /\ fnIn.c.IgnoreWhitespace
    /\ JSONShaped(fnIn.expected) /\ JSONShaped(fnIn.actual)
    /\ ~Unmarshal(fnIn.expected).ok
    /\ preprocessText(fnIn.c, fnIn.expected) # preprocessText(fnIn.c, fnIn.actual)
    /\ fnOut.Equal

\* C12: Compare always returns a verdict; when both sides are JSON-shaped and
\* a side does not parse, the verdict is not-equal and the diagnostic names
\* the side, the expected one when both fail.
C12_ParseFailureIsMismatch ==
    fnOut # None =>
        /\ fnOut.Equal \in BOOLEAN
        /\ ( /\ fnIn.c.CustomCompareFunc = "nil"
             /\ JSONShaped(fnIn.expected) /\ JSONShaped(fnIn.actual) )
           => /\ ~Unmarshal(fnIn.expected).ok
                 => fnOut = [Equal |-> FALSE, Details |-> "Failed to parse expected JSON"]
              /\ (Unmarshal(fnIn.expected).ok /\ ~Unmarshal(fnIn.actual).ok)
                 => fnOut = [Equal |-> FALSE, Details |-> "Failed to parse actual JSON"]

\* Neither side parses and the expected side is the one reported.
C12_Witness ==
    /\ fnOut # None
    /\ fnIn.c.CustomCompareFunc = "nil"
    /\ fnIn.expected = <<123>> /\ fnIn.actual = <<91, 49>>
    /\ fnOut.Details = "Failed to parse expected JSON"

-----------------------------------------------------------------------------
(* Comparator.normalizeValue called alone, once and then on its own result *)

MaxStrLen == 3       \* the longest string value
MaxNormLen == 3      \* the longest array that is normalised

\* String values of blanks, tabs, vertical tabs and "a".
NormStrs == {Str(s) : s \in UNION {[1..n -> {32, 9, 11, 97}] : n \in 0..MaxStrLen}}

\* Array elements: 1 and "1" print alike; " a" sorts before them until it is
\* trimmed.
NormElems ==
    {Num(1), Str(<<49>>), Str(<<32, 97>>), Str(<<97, 9, 32, 97>>),
     Obj(KeyK :> Str(<<97, 32, 32>>))}

NormArrays == {Arr(xs) : xs \in UNION {[1..n -> NormElems] : n \in 0..MaxNormLen}}

NormObjs ==
    {Obj(f) : f \in UNION {[D -> NormElems] : D \in SUBSET {KeyA, KeyK}}}
    \cup {Obj(KeyA :> arr) : arr \in NormArrays}

NormValues == NormStrs \cup NormArrays \cup NormObjs

NormOptions ==
    [IgnoreOrder : BOOLEAN, IgnoreWhitespace : BOOLEAN, CustomCompareFunc : {"nil"},
     IgnoreFields : {<<>>, <<KeyK>>}]

NormInit ==
    /\ StoreIdle
    /\ CmpIdle
    /\ fnIn \in [fn : {"normalizeValue"}, c : NormOptions, v : NormValues]
    /\ fnOut = None

NormalizeOnce ==
    /\ fnOut = None
    /\ fnOut' = [once |-> normalizeValue(fnIn.c, fnIn.v), twice |-> None]
    /\ UNCHANGED fnIn
    /\ FnFrame

NormalizeAgain ==
    /\ fnOut # None
    /\ fnOut.twice = None
    /\ fnOut' = [fnOut EXCEPT !.twice = normalizeValue(fnIn.c, fnOut.once)]
    /\ UNCHANGED fnIn
    /\ FnFrame

NormNext == NormalizeOnce \/ NormalizeAgain

SpecNormalize == NormInit /\ [][NormNext]_vars

\* C18: normalising a normalised value gives the same value again.
C18_NormalizeIsIdempotent ==
    (fnOut # None /\ fnOut.twice # None) => deepEqual(fnOut.twice, fnOut.once)

\* An array that the first normalisation trimmed and sorted was normalised
\* again.
C18_Witness ==
    /\ fnOut # None
    /\ fnOut.twice # None
    /\ fnIn.c.IgnoreWhitespace /\ fnIn.c.IgnoreOrder
    /\ fnIn.v = Arr(<<Str(<<97, 9, 32, 97>>), Str(<<32, 97>>), Num(1)>>)
    /\ fnOut.once = Arr(<<Num(1), Str(<<97>>), Str(<<97, 32, 97>>)>>)

-----------------------------------------------------------------------------
(* differ.Differ.  d is the differ's Options record                        *)
(* [ColorOutput, ShowLineNumbers, Algorithm].  In a text handed to the     *)
(* differ an element -n stands for n bytes "x" in a row, so that a line    *)
(* can reach the token limit of bufio.Scanner.                             *)

MaxScanTokenSize == 65536    \* bufio.MaxScanTokenSize, the limit of bufio.NewScanner

\* The number of bytes of a text.
RECURSIVE ByteLen(_)
ByteLen(str) ==
    IF str = <<>> THEN 0
    ELSE (IF Head(str) < 0 THEN 0 - Head(str) ELSE 1) + ByteLen(Tail(str))

\* A trailing '\r' is dropped from a scanned line (bufio.ScanLines).
DropCR(line) ==
    IF line # <<>> /\ line[Len(line)] = 13 THEN SubSeq(line, 1, Len(line) - 1) ELSE line

\* The lines scanner.Scan() yields, from index i on; cur is the line being read.
\* Scan returns false (ErrTooLong) once its buffer holds MaxScanTokenSize bytes
\* and no newline; the loop of splitLines ends there.
RECURSIVE ScanLines(_, _, _)
ScanLines(data, i, cur) ==
    IF i > Len(data) THEN (IF cur = <<>> THEN <<>> ELSE <<DropCR(cur)>>)
    ELSE IF data[i] = 10 THEN <<DropCR(cur)>> \o ScanLines(data, i + 1, <<>>)
    ELSE IF ByteLen(Append(cur, data[i])) >= MaxScanTokenSize THEN <<>>
    ELSE ScanLines(data, i + 1, Append(cur, data[i]))

splitLines(data) ==
    IF Len(data) = 0 THEN <<>>
    ELSE LET lines == ScanLines(data, 1, <<>>)
         IN  IF data[Len(data)] # 10 THEN Append(lines, <<>>) ELSE lines

DiffChunk(type, lines, startA, startB, countA, countB) ==
    [Type |-> type, Lines |-> lines, StartA |-> startA, StartB |-> startB,
     CountA |-> countA, CountB |-> countB]

\* A loop body that reports a changed line as a deletion only.
ChunkAt_ChangeIsDelete(expected, actual, i) ==
    IF i > Len(expected) THEN DiffChunk("Insert", <<actual[i]>>, 0, i - 1, 0, 1)
    ELSE IF i > Len(actual) THEN DiffChunk("Delete", <<expected[i]>>, i - 1, 0, 1, 0)
    ELSE IF expected[i] = actual[i] THEN DiffChunk("Equal", <<expected[i]>>, i - 1, i - 1, 1, 1)
    ELSE DiffChunk("Delete", <<expected[i]>>, i - 1, 0, 1, 0)

\* The chunk simpleDiff appends for index i (counted from 1 here; StartA and
\* StartB are the zero-based i of the source).
ChunkAt(expected, actual, i) ==
    IF i > Len(expected) THEN DiffChunk("Insert", <<actual[i]>>, 0, i - 1, 0, 1)
    ELSE IF i > Len(actual) THEN DiffChunk("Delete", <<expected[i]>>, i - 1, 0, 1, 0)
    ELSE IF expected[i] = actual[i] THEN DiffChunk("Equal", <<expected[i]>>, i - 1, i - 1, 1, 1)
    ELSE DiffChunk("Replace", <<expected[i], actual[i]>>, i - 1, i - 1, 1, 1)

\* A simpleDiff that stops at the end of the shorter sequence.
simpleDiff_ShorterLen(expected, actual) ==
    LET minLen == IF Len(actual) < Len(expected) THEN Len(actual) ELSE Len(expected)
        chunks == [i \in 1..minLen |-> ChunkAt(expected, actual, i)]
    IN  [Chunks |-> chunks, Equal |-> \A i \in 1..minLen : chunks[i].Type = "Equal"]

simpleDiff(expected, actual) ==
    LET maxLen == IF Len(actual) > Len(expected) THEN Len(actual) ELSE Len(expected)
        chunks == [i \in 1..maxLen |-> ChunkAt(expected, actual, i)]
    IN  [Chunks |-> chunks, Equal |-> \A i \in 1..maxLen : chunks[i].Type = "Equal"]

\* A myersDiff that reports the changes only and leaves the equal lines out.
myersDiff_ChangesOnly(expected, actual) ==
    LET diff == simpleDiff(expected, actual)
    IN  [diff EXCEPT !.Chunks = SelectSeq(diff.Chunks, LAMBDA ch : ch.Type # "Equal")]

myersDiff(expected, actual) == simpleDiff(expected, actual)

Diff(d, expected, actual) ==
    IF d.Algorithm = "Myers" THEN myersDiff(splitLines(expected), splitLines(actual))
    ELSE simpleDiff(splitLines(expected), splitLines(actual))

\* fmt's %4d
Pad4(n) == LET ds == Decimal(n) IN Spaces(IF Len(ds) < 4 THEN 4 - Len(ds) ELSE 0) \o ds

Red == <<27, 91, 51, 49, 109>>
Green == <<27, 91, 51, 50, 109>>
Reset == <<27, 91, 48, 109>>

\* writeDeleteLine (mark '-', red) and writeInsertLine (mark '+', green)
writeMarkedLine(d, mark, color, line, lineNum) ==
    (IF d.ColorOutput THEN color ELSE <<>>)
    \o <<mark>>
    \o (IF d.ShowLineNumbers THEN Pad4(lineNum) \o <<32, 32>> ELSE <<32>>)
    \o line
    \o (IF d.ColorOutput THEN Reset ELSE <<>>)
    \o <<10>>

writeDeleteLine(d, line, lineNum) == writeMarkedLine(d, 45, Red, line, lineNum)

writeInsertLine(d, line, lineNum) == writeMarkedLine(d, 43, Green, line, lineNum)

formatEqualChunk(d, chunk) ==
    IF d.ShowLineNumbers
    THEN <<32>> \o Pad4(chunk.StartA + 1) \o <<32, 32>> \o chunk.Lines[1] \o <<10>>
    ELSE <<32, 32>> \o chunk.Lines[1] \o <<10>>

formatChunk(d, chunk) ==
    CASE chunk.Type = "Equal" -> formatEqualChunk(d, chunk)
      [] chunk.Type = "Delete" -> writeDeleteLine(d, chunk.Lines[1], chunk.StartA + 1)
      [] chunk.Type = "Insert" -> writeInsertLine(d, chunk.Lines[1], chunk.StartB + 1)
      [] chunk.Type = "Replace" ->
            writeDeleteLine(d, chunk.Lines[1], chunk.StartA + 1)
            \o writeInsertLine(d, chunk.Lines[2], chunk.StartA + 1)

\* A Format without the early return for an equal diff.
Format_NoShortcut(d, diff) ==
    Concat([i \in 1..Len(diff.Chunks) |-> formatChunk(d, diff.Chunks[i])])

Format(d, diff) ==
    IF diff.Equal THEN <<>>
    ELSE Concat([i \in 1..Len(diff.Chunks) |-> formatChunk(d, diff.Chunks[i])])

-----------------------------------------------------------------------------
(* Differ.Diff and Differ.Format called on two texts.                      *)

MaxLines == 3        \* the most lines of a text

LineA == <<97>>      \* "a"
LineB == <<98>>      \* "b"
LineC == <<99>>      \* "c"

DiffLines == {LineA, LineB, LineC}

\* The lines joined by '\n', with or without a newline after the last one.
TextOf(lines, terminated) ==
    LET all == Concat([i \in 1..Len(lines) |-> lines[i] \o <<10>>])
    IN  IF terminated \/ all = <<>> THEN all ELSE SubSeq(all, 1, Len(all) - 1)

DiffTexts ==
    {TextOf(ls, nl) : ls \in UNION {[1..n -> DiffLines] : n \in 0..MaxLines}, nl \in BOOLEAN}

DiffOptions ==
    [ColorOutput : BOOLEAN, ShowLineNumbers : BOOLEAN, Algorithm : {"Simple", "Myers"}]

DiffInit ==
    /\ StoreIdle
    /\ CmpIdle
    /\ fnIn \in [fn : {"Diff"}, d : DiffOptions, expected : DiffTexts, actual : DiffTexts]
    /\ fnOut = None

\* diff := d.Diff(expected, actual)
DiffCall ==
    /\ fnIn.fn = "Diff"
    /\ fnOut = None
    /\ fnOut' = [diff |-> Diff(fnIn.d, fnIn.expected, fnIn.actual), text |-> None]
    /\ UNCHANGED fnIn
    /\ FnFrame

\* d.Format(diff)
FormatCall ==
    /\ fnIn.fn = "Diff"
    /\ fnOut # None
    /\ fnOut.text = None
    /\ fnOut' = [fnOut EXCEPT !.text = Format(fnIn.d, fnOut.diff)]
    /\ UNCHANGED fnIn
    /\ FnFrame

DiffNext == DiffCall \/ FormatCall

SpecDiff == DiffInit /\ [][DiffNext]_vars

\* C14: for every text X and every rendering option, Diff(X, X) is equal and
\* holds Equal chunks only, and Format of it is the empty string.
C14_SelfDiffFormatsEmpty ==
    (fnOut # None /\ fnIn.expected = fnIn.actual) =>
        /\ fnOut.diff.Equal
        /\ \A i \in 1..Len(fnOut.diff.Chunks) : fnOut.diff.Chunks[i].Type = "Equal"
        /\ fnOut.text # None => fnOut.text = <<>>

\* A text of three lines was diffed against itself with colours and line
\* numbers on, and formatted.
C14_Witness ==
    /\ fnOut # None
    /\ fnIn.expected = fnIn.actual
    /\ fnIn.d.ColorOutput /\ fnIn.d.ShowLineNumbers
    /\ Len(fnOut.diff.Chunks) = 3
    /\ fnOut.text = <<>>

\* C15: the lines "a", "b", "c" diffed against the lines "a", "c" give a
\* Delete chunk for "b", two Equal chunks, and a diff that is not equal.
C15_DeletedLineIsDeleteChunk ==
    ( /\ fnOut # None
      /\ splitLines(fnIn.expected) = <<LineA, LineB, LineC>>
      /\ splitLines(fnIn.actual) = <<LineA, LineC>> )
    => LET chunks == fnOut.diff.Chunks
       IN  /\ ~fnOut.diff.Equal
           /\ \E i \in 1..Len(chunks) :
                 chunks[i].Type = "Delete" /\ chunks[i].Lines = <<LineB>>
           /\ Cardinality({i \in 1..Len(chunks) : chunks[i].Type = "Equal"}) = 2

\* C15 as amended: the lines "a", "b", "c" diffed against the lines "a", "c"
\* give three chunks, an Equal chunk for "a", a Replace chunk of "b" by "c" and
\* a Delete chunk for "c", and a diff that is not equal.
C15_ShiftedLinesAreReplaced ==
    ( /\ fnOut # None
      /\ splitLines(fnIn.expected) = <<LineA, LineB, LineC>>
      /\ splitLines(fnIn.actual) = <<LineA, LineC>> )
    => LET chunks == fnOut.diff.Chunks
       IN  /\ ~fnOut.diff.Equal
           /\ Len(chunks) = 3
           /\ chunks[1].Type = "Equal" /\ chunks[1].Lines = <<LineA>>
           /\ chunks[2].Type = "Replace" /\ chunks[2].Lines = <<LineB, LineC>>
           /\ chunks[3].Type = "Delete" /\ chunks[3].Lines = <<LineC>>

\* The two texts of the example were diffed and the diff formatted.
C15_Witness ==
    /\ fnOut # None
    /\ fnIn.expected = <<97, 10, 98, 10, 99, 10>>
    /\ fnIn.actual = <<97, 10, 99, 10>>
    /\ fnOut.text # None
    /\ ~fnOut.diff.Equal

SideA(chunks) == SelectSeq(chunks, LAMBDA ch : ch.Type \in {"Equal", "Delete", "Replace"})
SideB(chunks) == SelectSeq(chunks, LAMBDA ch : ch.Type \in {"Equal", "Insert", "Replace"})

\* C21: the chunks of a diff give back both line sequences: the lines of the
\* Equal and Delete chunks and the first lines of the Replace chunks are the
\* expected lines in order, the lines of the Equal and Insert chunks and the
\* second lines of the Replace chunks are the actual lines; a Replace chunk
\* has two lines and every other chunk one; StartA and StartB are the
\* zero-based index of the chunk's line in its sequence.
C21_ChunksReconstructInputs ==
    fnOut # None =>
        LET e == splitLines(fnIn.expected)
            a == splitLines(fnIn.actual)
            chunks == fnOut.diff.Chunks
            sa == SideA(chunks)
            sb == SideB(chunks)
        IN  /\ \A i \in 1..Len(chunks) :
                  /\ chunks[i].Type \in {"Equal", "Delete", "Insert", "Replace"}
                  /\ Len(chunks[i].Lines) = IF chunks[i].Type = "Replace" THEN 2 ELSE 1
            /\ [i \in 1..Len(sa) |-> sa[i].Lines[1]] = e
            /\ [i \in 1..Len(sb) |-> sb[i].Lines[IF sb[i].Type = "Replace" THEN 2 ELSE 1]] = a
            /\ \A i \in 1..Len(sa) : sa[i].StartA = i - 1
            /\ \A i \in 1..Len(sb) : sb[i].StartB = i - 1

\* Two expected lines were diffed against three actual lines: one kept, one
\* replaced, one inserted.
C21_Witness ==
    /\ fnOut # None
    /\ splitLines(fnIn.expected) = <<LineA, LineB>>
    /\ splitLines(fnIn.actual) = <<LineA, LineC, LineB>>
    /\ Len(SideA(fnOut.diff.Chunks)) = 2
    /\ Len(SideB(fnOut.diff.Chunks)) = 3
    /\ fnOut.diff.Chunks[3].StartB = 2

-----------------------------------------------------------------------------
(* Differ.splitLines called on a buffer.                                   *)

MaxSplitLen == 4     \* the most elements of a buffer

\* "a", newline, carriage return, and runs of one byte less than the
\* scanner's limit and of the limit.
SplitItems == {97, 10, 13, 0 - (MaxScanTokenSize - 1), 0 - MaxScanTokenSize}

SplitInit ==
    /\ StoreIdle
    /\ CmpIdle
    /\ fnIn \in [fn : {"splitLines"},
                 data : UNION {[1..n -> SplitItems] : n \in 0..MaxSplitLen}]
    /\ fnOut = None

SplitCall ==
    /\ fnOut = None
    /\ fnOut' = [lines |-> splitLines(fnIn.data)]
    /\ UNCHANGED fnIn
    /\ FnFrame

SpecSplit == SplitInit /\ [][SplitCall]_vars

\* The lines of a buffer as the contract has them: what stands before each
\* newline and what is left after the last one, without the "\r" at the end.
RECURSIVE LinesOf(_, _, _)
LinesOf(data, i, cur) ==
    IF i > Len(data) THEN (IF cur = <<>> THEN <<>> ELSE <<DropCR(cur)>>)
    ELSE IF data[i] = 10 THEN <<DropCR(cur)>> \o LinesOf(data, i + 1, <<>>)
    ELSE LinesOf(data, i + 1, Append(cur, data[i]))

\* C23: splitLines returns no line for an empty buffer; for any other buffer
\* it returns every line of it without its terminator, and after them one
\* empty entry exactly when the buffer does not end with a newline.
C23_SplitKeepsEveryLine ==
    fnOut # None =>
        IF fnIn.data = <<>> THEN fnOut.lines = <<>>
        ELSE fnOut.lines =
                LinesOf(fnIn.data, 1, <<>>)
                \o (IF fnIn.data[Len(fnIn.data)] # 10 THEN << <<>> >> ELSE <<>>)

-----------------------------------------------------------------------------
(* golden.Golden: formatValue and the options New passes on.  A Go value   *)
(* given to Assert is a string (Str) or a value json.MarshalIndent encodes.*)

Golden_isJSON(data) ==
    IF Len(data) = 0 THEN FALSE
    ELSE LET d == TrimSpace(data)
         IN  IF Len(d) = 0 THEN FALSE ELSE d[1] = 123 \/ d[1] = 91

formatJSON(jsonData) ==
    LET parsed == Unmarshal(jsonData)
    IN  IF ~parsed.ok THEN jsonData ELSE MarshalIndent(parsed.v)

formatValue(value) ==
    CASE value.t = "str" -> IF Golden_isJSON(value.v) THEN formatJSON(value.v) ELSE value.v
      [] value.t = "nil" -> <<110, 117, 108, 108>>
      [] OTHER -> MarshalIndent(value)

\* compOpts of New with the default options: IgnoreOrder, nothing ignored
CompOpts ==
    [IgnoreOrder |-> TRUE, IgnoreWhitespace |-> FALSE, CustomCompareFunc |-> "nil",
     IgnoreFields |-> <<>>]

\* diffOpts of New, off a terminal
DiffOpts == [ColorOutput |-> FALSE, ShowLineNumbers |-> TRUE, Algorithm |-> "Simple"]

-----------------------------------------------------------------------------
(* Golden.assertBytes after ReadFile returned the golden bytes: Compare,   *)
(* and on inequality Diff and Format, with the options of New.             *)

MaxReportLen == 3    \* the most bytes of the golden file and of the actual bytes

\* Texts of "a", newlines and carriage returns.
ReportTexts == UNION {[1..n -> {97, 10, 13}] : n \in 0..MaxReportLen}

ReportInit ==
    /\ StoreIdle
    /\ CmpIdle
    /\ fnIn \in [fn : {"assertBytes"}, expected : ReportTexts, actual : ReportTexts]
    /\ fnOut = None

\* result := g.comparator.Compare(expected, actual)
ReportCompare ==
    /\ fnOut = None
    /\ fnOut' = [result |-> Compare(CompOpts, fnIn.expected, fnIn.actual),
                 diff |-> None, diffOutput |-> None]
    /\ UNCHANGED fnIn
    /\ FnFrame

\* if !result.Equal { diff := g.differ.Diff(expected, actual)
ReportDiff ==
    /\ fnOut # None
    /\ ~fnOut.result.Equal
    /\ fnOut.diff = None
    /\ fnOut' = [fnOut EXCEPT !.diff = Diff(DiffOpts, fnIn.expected, fnIn.actual)]
    /\ UNCHANGED fnIn
    /\ FnFrame

\* diffOutput := g.differ.Format(diff)
ReportFormat ==
    /\ fnOut # None
    /\ fnOut.diff # None
    /\ fnOut.diffOutput = None
    /\ fnOut' = [fnOut EXCEPT !.diffOutput = Format(DiffOpts, fnOut.diff)]
    /\ UNCHANGED fnIn
    /\ FnFrame

ReportNext == ReportCompare \/ ReportDiff \/ ReportFormat

SpecReport == ReportInit /\ [][ReportNext]_vars

\* C24: when Compare reports the golden and the actual bytes unequal, the
\* diff of the same bytes is not equal, holds a Delete, Insert or Replace
\* chunk, and is rendered as a text that is not empty.
C24_MismatchHasDiff ==
    (fnOut # None /\ ~fnOut.result.Equal) =>
        /\ fnOut.diff # None =>
              /\ ~fnOut.diff.Equal
              /\ \E i \in 1..Len(fnOut.diff.Chunks) :
                    fnOut.diff.Chunks[i].Type \in {"Delete", "Insert", "Replace"}
        /\ fnOut.diffOutput # None => fnOut.diffOutput # <<>>

-----------------------------------------------------------------------------
(* Errors.  An error is the chain of its wrappers down to the errno.       *)

NoErr == <<>>

\* *fs.PathError of a failed open, read, write or mkdir
PathError(errno) == <<"fs.PathError", errno>>

\* *os.LinkError of a failed rename
LinkError(errno) == <<"os.LinkError", errno>>

\* fmt.Errorf("...: %w", err)
Errorf(err) == <<"fmt.wrapError">> \o err

\* os.underlyingError: only the os package's own error types are unwrapped.
underlyingError(err) ==
    IF err # <<>> /\ Head(err) \in {"fs.PathError", "os.LinkError", "os.SyscallError"}
    THEN Tail(err) ELSE err

\* os.IsNotExist
osIsNotExist(err) == underlyingError(err) = <<"ENOENT">>

-----------------------------------------------------------------------------
(* manager.DefaultNaming and Manager.GetFilename.  A Manager is the record *)
(* [baseDir, testFile, testFunc] here.                                     *)

Underscore == <<95>>                                     \* "_"
DotGo == <<46, 103, 111>>                                \* ".go"
DotGolden == <<46, 103, 111, 108, 100, 101, 110>>        \* ".golden"

\* strings.HasSuffix
HasSuffix(str, suffix) ==
    /\ Len(str) >= Len(suffix)
    /\ SubSeq(str, Len(str) - Len(suffix) + 1, Len(str)) = suffix

\* strings.TrimSuffix
TrimSuffix(str, suffix) ==
    IF HasSuffix(str, suffix) THEN SubSeq(str, 1, Len(str) - Len(suffix)) ELSE str

\* strings.Split(str, "_"), reading str from index i on; cur is the part being read.
RECURSIVE SplitFrom(_, _, _)
SplitFrom(str, i, cur) ==
    IF i > Len(str) THEN <<cur>>
    ELSE IF str[i] = 95 THEN <<cur>> \o SplitFrom(str, i + 1, <<>>)
    ELSE SplitFrom(str, i + 1, Append(cur, str[i]))

Split(str) == SplitFrom(str, 1, <<>>)

GenerateFilename(testFile, testFunc, goldenName) ==
    LET baseFile == TrimSuffix(testFile, DotGo)
    IN  baseFile \o Underscore \o testFunc \o Underscore \o goldenName \o DotGolden

\* A ParseFilename that takes the first part for the test file.
ParseFilename_FirstIsFile(filename) ==
    LET base == TrimSuffix(filename, DotGolden)
        parts == Split(base)
    IN  IF Len(parts) < 3
        THEN [ok |-> FALSE, testFile |-> <<>>, testFunc |-> <<>>, goldenName |-> <<>>]
        ELSE [ok |-> TRUE,
              testFile |-> parts[1] \o DotGo,
              testFunc |-> parts[2],
              goldenName |-> Join(SubSeq(parts, 3, Len(parts)), Underscore)]

\* ok is err == nil
ParseFilename(filename) ==
    LET base == TrimSuffix(filename, DotGolden)
        parts == Split(base)
    IN  IF Len(parts) < 3
        THEN [ok |-> FALSE, testFile |-> <<>>, testFunc |-> <<>>, goldenName |-> <<>>]
        ELSE [ok |-> TRUE,
              testFile |-> Join(SubSeq(parts, 1, Len(parts) - 2), Underscore) \o DotGo,
              testFunc |-> parts[Len(parts) - 1],
              goldenName |-> parts[Len(parts)]]

\* filepath.Join of a directory name and a file name that hold no separator
\* and no dot element: Clean leaves the joined path as it is.
filepathJoin(dir, file) == dir \o <<47>> \o file

GetFilename(m, goldenName) ==
    filepathJoin(m.baseDir, GenerateFilename(m.testFile, m.testFunc, goldenName))

MaxPart == 2         \* the longest file stem, test name or artifact name

\* Names are made of "a" and "_".
Parts == UNION {[1..n -> {97, 95}] : n \in 0..MaxPart}

\* Origin files: Go source file names, and names without the extension.
Files == {part \o DotGo : part \in Parts} \cup (Parts \ {<<>>})

Dirs == {<<112>>, <<113>>}       \* "p", "q"

\* The identities a path is resolved for.
Identities ==
    [fn : {"GetFilename"}, baseDir : Dirs, testFile : Files, testFunc : Parts,
     goldenName : Parts]

\* File names handed to ParseFilename as they are.
RawNames == {part \o DotGolden : part \in Parts} \cup (Parts \ {<<>>})

NamingInit ==
    /\ StoreIdle
    /\ CmpIdle
    /\ fnIn \in Identities \cup [fn : {"ParseFilename"}, filename : RawNames]
    /\ fnOut = None

\* The Manager of an identity.
ManagerOf(id) == [baseDir |-> id.baseDir, testFile |-> id.testFile, testFunc |-> id.testFunc]

\* filename := m.naming.GenerateFilename(...); filepath.Join(m.baseDir, filename)
ResolvePath ==
    /\ fnIn.fn = "GetFilename"
    /\ fnOut = None
    /\ fnOut' = [filename |-> GenerateFilename(fnIn.testFile, fnIn.testFunc, fnIn.goldenName),
                 path |-> GetFilename(ManagerOf(fnIn), fnIn.goldenName),
                 parsed |-> None]
    /\ UNCHANGED fnIn
    /\ FnFrame

\* ParseFilename of the generated file name
ParseBack ==
    /\ fnIn.fn = "GetFilename"
    /\ fnOut # None
    /\ fnOut.parsed = None
    /\ fnOut' = [fnOut EXCEPT !.parsed = ParseFilename(fnOut.filename)]
    /\ UNCHANGED fnIn
    /\ FnFrame

\* ParseFilename of a given file name
ParseRaw ==
    /\ fnIn.fn = "ParseFilename"
    /\ fnOut = None
    /\ fnOut' = [parsed |-> ParseFilename(fnIn.filename)]
    /\ UNCHANGED fnIn
    /\ FnFrame

NamingNext == ResolvePath \/ ParseBack \/ ParseRaw

SpecNaming == NamingInit /\ [][NamingNext]_vars

\* The number of "_" in str.
Separators(str) == Cardinality({i \in 1..Len(str) : str[i] = 95})

\* C16: for a Go file name, a test name and an artifact name the last two of
\* which hold no "_", ParseFilename of GenerateFilename returns the three
\* without error; ParseFilename returns an error for a file name whose base
\* has fewer than three parts between "_".
C16_NamingRoundTrip ==
    fnOut # None =>
        /\ ( /\ fnIn.fn = "GetFilename"
             /\ fnOut.parsed # None
             /\ HasSuffix(fnIn.testFile, DotGo)
             /\ Separators(fnIn.testFunc) = 0
             /\ Separators(fnIn.goldenName) = 0 )
           => fnOut.parsed = [ok |-> TRUE, testFile |-> fnIn.testFile,
                              testFunc |-> fnIn.testFunc, goldenName |-> fnIn.goldenName]
        /\ ( /\ fnIn.fn = "ParseFilename"
             /\ Separators(TrimSuffix(fnIn.filename, DotGolden)) < 2 )
           => ~fnOut.parsed.ok

\* The file name "a_.go", with a "_" of its own, came back from the path
\* generated for it.
C16_Witness ==
    /\ fnOut # None
    /\ fnIn.fn = "GetFilename"
    /\ fnIn.testFile = <<97, 95>> \o DotGo
    /\ fnIn.testFunc = <<97>> /\ fnIn.goldenName = <<97, 97>>
    /\ fnOut.parsed # None
    /\ fnOut.parsed.ok /\ fnOut.parsed.testFile = fnIn.testFile

\* C17: two different identities (base directory, Go file name, test name,
\* artifact name) never resolve to the same golden file path.
C17_PathsAreInjective ==
    (fnOut # None /\ fnIn.fn = "GetFilename" /\ HasSuffix(fnIn.testFile, DotGo)) =>
        \A other \in Identities :
            (other # fnIn /\ HasSuffix(other.testFile, DotGo))
            => GetFilename(ManagerOf(other), other.goldenName) # fnOut.path

-----------------------------------------------------------------------------
(* Golden.assertBytes in verify mode on a golden file of a given size.     *)
(* The file is its size alone here, and the verdict of the comparison on   *)
(* its content is either one.  os.ReadFile reads until the end of the      *)
(* file; one read returns what is left of the file or a few bytes less.    *)

maxFileSize == 52428800      \* defaultOptions: 50 * 1024 * 1024, the 50MB safety limit

MaxOver == 4         \* file sizes lie within MaxOver of the limit, or of 0
MaxShort == 2        \* a read returns at most MaxShort bytes less than is left

FileSizes == {maxFileSize + d : d \in (0 - MaxOver)..MaxOver} \cup 0..MaxOver

\* golden.New: the options of the instance; the file on disk, if any.
LimitInit ==
    /\ StoreIdle
    /\ CmpIdle
    /\ fnIn \in [fn : {"assertBytes"}, maxFileSize : {maxFileSize}, exists : {TRUE},
                 size : FileSizes]
             \cup [fn : {"assertBytes"}, maxFileSize : {maxFileSize}, exists : {FALSE},
                   size : {0}]
    /\ fnOut = None

\* Manager.ReadFile: os.ReadFile opens the file
LimitOpen ==
    /\ fnOut = None
    /\ fnOut' = IF fnIn.exists
                THEN [pc |-> "read", loaded |-> 0, outcome |-> "none"]
                ELSE [pc |-> "done", loaded |-> 0, outcome |-> "NotFound"]
    /\ UNCHANGED fnIn
    /\ FnFrame

\* os.ReadFile: one f.Read into the buffer
LimitRead ==
    /\ fnOut # None
    /\ fnOut.pc = "read"
    /\ fnOut.loaded < fnIn.size
    /\ \E short \in 0..MaxShort :
          /\ fnIn.size - fnOut.loaded - short >= 1
          /\ fnOut' = [fnOut EXCEPT !.loaded = fnIn.size - short]
    /\ UNCHANGED fnIn
    /\ FnFrame

\* os.ReadFile: f.Read returns io.EOF and ReadFile returns the data
LimitEOF ==
    /\ fnOut # None
    /\ fnOut.pc = "read"
    /\ fnOut.loaded = fnIn.size
    /\ fnOut' = [fnOut EXCEPT !.pc = "compare"]
    /\ UNCHANGED fnIn
    /\ FnFrame

\* g.comparator.Compare(expected, actual) and the report
LimitCompare ==
    /\ fnOut # None
    /\ fnOut.pc = "compare"
    /\ \E equal \in BOOLEAN :
          fnOut' = [fnOut EXCEPT !.pc = "done",
                                 !.outcome = IF equal THEN "Pass" ELSE "Mismatch"]
    /\ UNCHANGED fnIn
    /\ FnFrame

LimitNext == LimitOpen \/ LimitRead \/ LimitEOF \/ LimitCompare

SpecLimit == LimitInit /\ [][LimitNext]_vars

\* C19: in verify mode a golden file larger than the max-file-size limit is
\* never loaded whole and never compared: the assertion fails before that.
C19_OversizeFailsFast ==
    (fnOut # None /\ fnIn.exists /\ fnIn.size > fnIn.maxFileSize) =>
        /\ fnOut.loaded < fnIn.size
        /\ fnOut.pc # "compare"
        /\ fnOut.outcome \notin {"Pass", "Mismatch"}

-----------------------------------------------------------------------------
(* The golden file store (manager.Manager) and Golden.assertBytes, called  *)
(* by concurrent goroutines.  A call is an assertion in update mode        *)
(* (Manager.WriteFile) or in verify mode (Manager.ReadFile, then Compare   *)
(* and Diff).  The file system keeps names and inodes apart: a rename      *)
(* moves a name to another inode, an open file stays on its inode.         *)

NProcs == 2          \* goroutines
MaxCalls == 3        \* calls started in a run, over all goroutines
MaxFaults == 1       \* system calls the environment fails in a run

Procs == 1..NProcs

Managers == {"m1", "m2"}

\* The filenames Manager.GetFilename hands to ReadFile and WriteFile.
Paths == {"a.golden", "b.golden"}

\* A temporary file name that does not depend on the golden file's name.
TmpOf_Shared(filename) == "a.golden.tmp"

\* tmpFile := filename + ".tmp"
TmpOf(filename) == filename \o ".tmp"

\* Filenames given to WriteFile and ReadFile of the Manager directly: a golden
\* file and the file that bears the name of its temporary file.
AliasPaths == {"a.golden", TmpOf("a.golden")}

StorePaths == Paths \cup AliasPaths

FileNames == StorePaths \cup {TmpOf(f) : f \in StorePaths}

Inodes == 1..(Cardinality(FileNames) + NProcs)

\* The values given to Assert: "hi" and "{" (JSON-shaped, not JSON)
Values == {Str(<<104, 105>>), Str(<<123>>)}

NoCall == [kind |-> "none"]

\* The inodes a name or an open file refers to.
Referenced(nm, f) == ({nm[n] : n \in FileNames} \cup {f[t] : t \in Procs}) \ {0}

\* The inode a newly created file gets.
FreshInode(nm, f) ==
    CHOOSE i \in Inodes :
        /\ i \notin Referenced(nm, f)
        /\ \A j \in Inodes : j \notin Referenced(nm, f) => i <= j

\* An inode nothing refers to is freed.
Sweep(dk, nm, f) == [i \in Inodes |-> IF i \in Referenced(nm, f) THEN dk[i] ELSE <<>>]

\* write(2) of bytes at offset off; a gap is filled with zero bytes.
WriteAt(content, off, bytes) ==
    LET n == IF off + Len(bytes) > Len(content) THEN off + Len(bytes) ELSE Len(content)
    IN  [i \in 1..n |-> IF i > off /\ i <= off + Len(bytes) THEN bytes[i - off]
                        ELSE IF i <= Len(content) THEN content[i] ELSE 0]

\* What stands for the content of a file that does not exist: no sequence of bytes.
NoFile == <<-1>>

\* What stands for bytes a call has not got: the data ReadFile did not return,
\* the diff that was not rendered.
NoBytes == <<-1>>

\* What a reader opening filename now would see.
Content(filename) ==
    IF dirExists /\ names[filename] # 0 THEN disk[names[filename]] ELSE NoFile

Init ==
    /\ CmpIdle
    /\ FnIdle
    \* each goroutine asserts through a Golden of its own or through a shared one
    /\ mgrOf \in {m \in [Procs -> Managers] : m[1] = "m1"}
    /\ pc = [t \in Procs |-> "idle"]
    /\ call = [t \in Procs |-> NoCall]
    /\ ncalls = 0
    /\ nfaults = 0
    /\ mu = [m \in Managers |-> 0]
    /\ locks = [m \in Managers |-> {}]
    /\ rw = [l \in Managers \X StorePaths |-> [w |-> 0, r |-> {}]]
    /\ fd = [t \in Procs |-> 0]
    \* no directory yet, or a directory where "a.golden" holds "hi" already
    /\ \/ /\ dirExists = FALSE
          /\ names = [n \in FileNames |-> 0]
          /\ disk = [i \in Inodes |-> <<>>]
       \/ /\ dirExists = TRUE
          /\ names = [n \in FileNames |-> IF n = "a.golden" THEN 1 ELSE 0]
          /\ disk = [i \in Inodes |-> IF i = 1 THEN <<104, 105>> ELSE <<>>]
    /\ hist = [f \in StorePaths |-> IF names[f] # 0 THEN {disk[names[f]]} ELSE {}]
    /\ last = [f \in StorePaths |-> None]

\* The environment may fail one more system call.
MayFail == nfaults < MaxFaults

StoreFrame == UNCHANGED <<cmpVars, fnVars>>

\* Goroutine u is in a WriteFile of filename.
Writing(u, filename) ==
    pc[u] \notin {"idle", "done"} /\ call[u].kind = "update" /\ call[u].filename = filename

\* The record of a call as it begins.  alone: no other WriteFile of this file
\* runs during this WriteFile.  foreign: a WriteFile of this file through another
\* Manager runs during this WriteFile.  follows: the value of the WriteFile of
\* this file that returned last, when it ran alone, succeeded and none began since.
NewCall(t, update, filename, value) ==
    [kind |-> IF update THEN "update" ELSE "verify",
     filename |-> filename,
     value |-> value,
     actual |-> formatValue(value),
     err |-> NoErr,
     data |-> NoBytes,
     off |-> 0,
     missing |-> FALSE,
     alone |-> ~update \/ \A u \in Procs \ {t} : ~Writing(u, filename),
     foreign |-> update /\ \E u \in Procs \ {t} :
                              Writing(u, filename) /\ mgrOf[u] # mgrOf[t],
     follows |-> IF update THEN None ELSE last[filename],
     did |-> {},
     outcome |-> "",
     diffOutput |-> NoBytes]

\* Goroutine t begins a call on one of the filenames.
StartCall(t, filenames) ==
    /\ pc[t] = "idle"
    /\ ncalls < MaxCalls
    /\ \E update \in BOOLEAN, filename \in filenames, value \in Values :
          /\ call' = [u \in Procs |->
                        IF u = t THEN NewCall(t, update, filename, value)
                        ELSE IF update /\ Writing(u, filename)
                        THEN [call[u] EXCEPT !.alone = FALSE,
                                             !.foreign = @ \/ mgrOf[u] # mgrOf[t]]
                        ELSE IF update /\ call[u].kind = "verify"
                                /\ call[u].filename = filename
                        THEN [call[u] EXCEPT !.follows = None]
                        ELSE call[u]]
          /\ hist' = IF update
                     THEN [hist EXCEPT ![filename] = @ \cup {formatValue(value)}]
                     ELSE hist
          /\ last' = IF update THEN [last EXCEPT ![filename] = None] ELSE last
    /\ pc' = [pc EXCEPT ![t] = "lf_mu"]
    /\ ncalls' = ncalls + 1
    /\ UNCHANGED <<mgrOf, nfaults, mu, locks, rw, dirExists, names, disk, fd>>
    /\ StoreFrame

\* Golden.Assert(name, value): formatValue, then assertBytes up to the call of
\* Manager.WriteFile (update mode) or Manager.ReadFile, which enters lockFile.
Assertion(t) == StartCall(t, Paths)

\* Manager.WriteFile(filename, data) or Manager.ReadFile(filename) called with
\* a filename of the caller's own.
ManagerCall(t) == StartCall(t, AliasPaths)

\* lockFile: m.mu.Lock()
LockRegistry(t) ==
    /\ pc[t] = "lf_mu"
    /\ mu[mgrOf[t]] = 0
    /\ mu' = [mu EXCEPT ![mgrOf[t]] = t]
    /\ pc' = [pc EXCEPT ![t] = "lf_get"]
    /\ UNCHANGED <<mgrOf, call, ncalls, nfaults, locks, rw, dirExists, names, disk,
                   fd, hist, last>>
    /\ StoreFrame

\* The locks of a Manager after lockFile looked filename up: a missing lock is added.
lockFileLookup(registry, filename) == registry \cup {filename}

\* lockFile: lock, exists := m.locks[filename]; if !exists { ... }
LookupLock(t) ==
    /\ pc[t] = "lf_get"
    /\ locks' = [locks EXCEPT ![mgrOf[t]] = lockFileLookup(@, call[t].filename)]
    /\ pc' = [pc EXCEPT ![t] = "lf_unmu"]
    /\ UNCHANGED <<mgrOf, call, ncalls, nfaults, mu, rw, dirExists, names, disk, fd,
                   hist, last>>
    /\ StoreFrame

\* A lockFile that keeps m.mu while it goes on to take the file's lock.
UnlockRegistry_Kept(t) ==
    /\ pc[t] = "lf_unmu"
    /\ pc' = [pc EXCEPT ![t] = "lf_lock"]
    /\ UNCHANGED <<mgrOf, call, ncalls, nfaults, mu, locks, rw, dirExists, names, disk,
                   fd, hist, last>>
    /\ StoreFrame

\* lockFile: m.mu.Unlock()
UnlockRegistry(t) ==
    /\ pc[t] = "lf_unmu"
    /\ mu' = [mu EXCEPT ![mgrOf[t]] = 0]
    /\ pc' = [pc EXCEPT ![t] = "lf_lock"]
    /\ UNCHANGED <<mgrOf, call, ncalls, nfaults, locks, rw, dirExists, names, disk,
                   fd, hist, last>>
    /\ StoreFrame

\* The lock object lockFile returned to goroutine t: the entry of its Manager's map.
LockOf(t) == <<mgrOf[t], call[t].filename>>

\* WriteFile passes exclusive = true, ReadFile false.
Exclusive(t) == call[t].kind = "update"

\* lock.Lock() may return: no writer and no reader holds the lock.
CanLock(l) == l.w = 0 /\ l.r = {}

\* lock.RLock() may return: no writer holds the lock.
CanRLock(l) == l.w = 0

\* lockFile: lock.Lock() or lock.RLock()
AcquireFileLock(t) ==
    /\ pc[t] = "lf_lock"
    /\ IF Exclusive(t)
       THEN /\ CanLock(rw[LockOf(t)])
            /\ rw' = [rw EXCEPT ![LockOf(t)].w = t]
            /\ pc' = [pc EXCEPT ![t] = "w_mkdir"]
       ELSE /\ CanRLock(rw[LockOf(t)])
            /\ rw' = [rw EXCEPT ![LockOf(t)].r = @ \cup {t}]
            /\ pc' = [pc EXCEPT ![t] = "r_open"]
    /\ UNCHANGED <<mgrOf, call, ncalls, nfaults, mu, locks, dirExists, names, disk,
                   fd, hist, last>>
    /\ StoreFrame

\* WriteFile: os.MkdirAll(dir, 0o750)
MkdirAll(t) ==
    /\ pc[t] = "w_mkdir"
    /\ \/ /\ dirExists' = TRUE
          /\ pc' = [pc EXCEPT ![t] = "w_create"]
          /\ UNCHANGED <<call, nfaults>>
       \/ /\ MayFail
          /\ nfaults' = nfaults + 1
          /\ call' = [call EXCEPT ![t].err = Errorf(PathError("EACCES"))]
          /\ pc' = [pc EXCEPT ![t] = "w_unlock"]
          /\ UNCHANGED dirExists
    /\ UNCHANGED <<mgrOf, ncalls, mu, locks, rw, names, disk, fd, hist, last>>
    /\ StoreFrame

\* WriteFile: os.WriteFile(tmpFile, data, 0o600), the open with O_CREATE|O_TRUNC
CreateTmp(t) ==
    /\ pc[t] = "w_create"
    /\ LET tmp == TmpOf(call[t].filename)
           ino == IF names[tmp] # 0 THEN names[tmp] ELSE FreshInode(names, fd)
       IN  \/ /\ names' = [names EXCEPT ![tmp] = ino]
              /\ disk' = [disk EXCEPT ![ino] = <<>>]
              /\ IF call[t].actual = <<>>
                 THEN fd' = fd /\ pc' = [pc EXCEPT ![t] = "w_rename"]
                 ELSE fd' = [fd EXCEPT ![t] = ino] /\ pc' = [pc EXCEPT ![t] = "w_write"]
              /\ UNCHANGED <<call, nfaults>>
           \/ /\ MayFail
              /\ nfaults' = nfaults + 1
              /\ call' = [call EXCEPT ![t].err = Errorf(PathError("EACCES"))]
              /\ pc' = [pc EXCEPT ![t] = "w_unlock"]
              /\ UNCHANGED <<names, disk, fd>>
    /\ UNCHANGED <<mgrOf, ncalls, mu, locks, rw, dirExists, hist, last>>
    /\ StoreFrame

\* WriteFile: os.WriteFile(tmpFile, data, 0o600), the writes and the close.  A
\* write puts any number of the remaining bytes into the open file.
WriteTmp(t) ==
    /\ pc[t] = "w_write"
    /\ LET c == call[t]
       IN  \/ \E k \in 1..(Len(c.actual) - c.off) :
                LET dk == [disk EXCEPT ![fd[t]] =
                             WriteAt(@, c.off, SubSeq(c.actual, c.off + 1, c.off + k))]
                IN  IF c.off + k = Len(c.actual)
                    THEN /\ fd' = [fd EXCEPT ![t] = 0]
                         /\ disk' = Sweep(dk, names, fd')
                         /\ call' = [call EXCEPT ![t].off = 0]
                         /\ pc' = [pc EXCEPT ![t] = "w_rename"]
                         /\ UNCHANGED nfaults
                    ELSE /\ disk' = dk
                         /\ call' = [call EXCEPT ![t].off = c.off + k]
                         /\ UNCHANGED <<fd, pc, nfaults>>
           \/ /\ MayFail
              /\ nfaults' = nfaults + 1
              /\ fd' = [fd EXCEPT ![t] = 0]
              /\ disk' = Sweep(disk, names, fd')
              /\ call' = [call EXCEPT ![t].err = Errorf(PathError("ENOSPC")), ![t].off = 0]
              /\ pc' = [pc EXCEPT ![t] = "w_unlock"]
    /\ UNCHANGED <<mgrOf, ncalls, mu, locks, rw, dirExists, names, hist, last>>
    /\ StoreFrame

\* WriteFile: os.Rename(tmpFile, filename)
Rename(t) ==
    /\ pc[t] = "w_rename"
    /\ LET f == call[t].filename
           tmp == TmpOf(f)
       IN  \/ /\ names[tmp] # 0
              /\ names' = [names EXCEPT ![f] = names[tmp], ![tmp] = 0]
              /\ disk' = Sweep(disk, names', fd)
              /\ pc' = [pc EXCEPT ![t] = "w_unlock"]
              /\ UNCHANGED <<call, nfaults>>
           \/ /\ names[tmp] = 0
              /\ call' = [call EXCEPT ![t].err = Errorf(LinkError("ENOENT"))]
              /\ pc' = [pc EXCEPT ![t] = "w_remove"]
              /\ UNCHANGED <<names, disk, nfaults>>
           \/ /\ MayFail
              /\ nfaults' = nfaults + 1
              /\ call' = [call EXCEPT ![t].err = Errorf(LinkError("EACCES"))]
              /\ pc' = [pc EXCEPT ![t] = "w_remove"]
              /\ UNCHANGED <<names, disk>>
    /\ UNCHANGED <<mgrOf, ncalls, mu, locks, rw, dirExists, fd, hist, last>>
    /\ StoreFrame

\* A WriteFile that leaves the temporary file behind when the rename failed.
RemoveTmp_Skipped(t) ==
    /\ pc[t] = "w_remove"
    /\ pc' = [pc EXCEPT ![t] = "w_unlock"]
    /\ UNCHANGED <<mgrOf, call, ncalls, nfaults, mu, locks, rw, dirExists, names, disk,
                   fd, hist, last>>
    /\ StoreFrame

\* WriteFile: _ = os.Remove(tmpFile)
RemoveTmp(t) ==
    /\ pc[t] = "w_remove"
    /\ names' = [names EXCEPT ![TmpOf(call[t].filename)] = 0]
    /\ disk' = Sweep(disk, names', fd)
    /\ pc' = [pc EXCEPT ![t] = "w_unlock"]
    /\ UNCHANGED <<mgrOf, call, ncalls, nfaults, mu, locks, rw, dirExists, fd, hist, last>>
    /\ StoreFrame

\* A WriteFile whose error returns leave without the deferred unlock.
WriteFileReturn_KeepsLockOnError(t) ==
    /\ pc[t] = "w_unlock"
    /\ rw' = IF call[t].err = NoErr THEN [rw EXCEPT ![LockOf(t)].w = 0] ELSE rw
    /\ call' = [call EXCEPT ![t].did = {"WriteFile"},
                            ![t].outcome = IF call[t].err # NoErr THEN "WriteFailed"
                                           ELSE "Pass"]
    /\ last' = [last EXCEPT ![call[t].filename] =
                  IF call[t].err = NoErr /\ call[t].alone THEN call[t].value ELSE None]
    /\ pc' = [pc EXCEPT ![t] = "done"]
    /\ UNCHANGED <<mgrOf, ncalls, nfaults, mu, locks, dirExists, names, disk, fd, hist>>
    /\ StoreFrame

\* An assertBytes that tests WriteFile's error the wrong way round.
UpdateOutcome_Inverted(err) == IF err = NoErr THEN "WriteFailed" ELSE "Pass"

\* How assertBytes ends in update mode, given what WriteFile returned.
UpdateOutcome(err) == IF err # NoErr THEN "WriteFailed" ELSE "Pass"

\* WriteFile returns (the deferred unlock runs), and assertBytes ends: a failed
\* write is fatal, otherwise the assertion returns.
WriteFileReturn(t) ==
    /\ pc[t] = "w_unlock"
    /\ rw' = [rw EXCEPT ![LockOf(t)].w = 0]
    /\ call' = [call EXCEPT ![t].did = {"WriteFile"},
                            ![t].outcome = UpdateOutcome(call[t].err)]
    /\ last' = [last EXCEPT ![call[t].filename] =
                  IF call[t].err = NoErr /\ call[t].alone THEN call[t].value ELSE None]
    /\ pc' = [pc EXCEPT ![t] = "done"]
    /\ UNCHANGED <<mgrOf, ncalls, nfaults, mu, locks, dirExists, names, disk, fd, hist>>
    /\ StoreFrame

\* A ReadFile whose open creates the file when the directory has none.
OpenGolden_Creates(t) ==
    /\ pc[t] = "r_open"
    /\ LET f == call[t].filename
           ino == IF names[f] # 0 THEN names[f] ELSE FreshInode(names, fd)
       IN  \/ /\ dirExists
              /\ names' = [names EXCEPT ![f] = ino]
              /\ fd' = [fd EXCEPT ![t] = ino]
              /\ pc' = [pc EXCEPT ![t] = "r_read"]
              /\ UNCHANGED call
           \/ /\ ~dirExists
              /\ call' = [call EXCEPT ![t].err = Errorf(PathError("ENOENT")),
                                      ![t].missing = TRUE]
              /\ pc' = [pc EXCEPT ![t] = "r_unlock"]
              /\ UNCHANGED <<fd, names>>
    /\ UNCHANGED <<mgrOf, ncalls, nfaults, mu, locks, rw, dirExists, disk, hist, last>>
    /\ StoreFrame

\* ReadFile: os.ReadFile(filename), the open
OpenGolden(t) ==
    /\ pc[t] = "r_open"
    /\ LET f == call[t].filename
       IN  \/ /\ dirExists /\ names[f] # 0
              /\ fd' = [fd EXCEPT ![t] = names[f]]
              /\ pc' = [pc EXCEPT ![t] = "r_read"]
              /\ UNCHANGED <<call, nfaults>>
           \/ /\ ~(dirExists /\ names[f] # 0)
              /\ call' = [call EXCEPT ![t].err = Errorf(PathError("ENOENT")),
                                      ![t].missing = TRUE]
              /\ pc' = [pc EXCEPT ![t] = "r_unlock"]
              /\ UNCHANGED <<fd, nfaults>>
           \/ /\ dirExists /\ names[f] # 0
              /\ MayFail
              /\ nfaults' = nfaults + 1
              /\ call' = [call EXCEPT ![t].err = Errorf(PathError("EACCES"))]
              /\ pc' = [pc EXCEPT ![t] = "r_unlock"]
              /\ UNCHANGED fd
    /\ UNCHANGED <<mgrOf, ncalls, mu, locks, rw, dirExists, names, disk, hist,
                   last>>
    /\ StoreFrame

\* ReadFile: os.ReadFile(filename), the read of the open file and the close
ReadGolden(t) ==
    /\ pc[t] = "r_read"
    /\ call' = [call EXCEPT ![t].data = disk[fd[t]]]
    /\ fd' = [fd EXCEPT ![t] = 0]
    /\ disk' = Sweep(disk, names, fd')
    /\ pc' = [pc EXCEPT ![t] = "r_unlock"]
    /\ UNCHANGED <<mgrOf, ncalls, nfaults, mu, locks, rw, dirExists, names, hist, last>>
    /\ StoreFrame

\* assertBytes after ReadFile returned (err, expected): what the assertion
\* called and how it ended.
VerifyResult(err, expected, actual) ==
    IF err # NoErr THEN
        [did |-> {"ReadFile"},
         outcome |-> IF osIsNotExist(err) THEN "NotFound" ELSE "ReadFailed",
         diffOutput |-> NoBytes]
    ELSE IF ~Compare(CompOpts, expected, actual).Equal THEN
        [did |-> {"ReadFile", "Compare", "Diff", "Format"},
         outcome |-> "Mismatch",
         diffOutput |-> Format(DiffOpts, Diff(DiffOpts, expected, actual))]
    ELSE
        [did |-> {"ReadFile", "Compare"}, outcome |-> "Pass", diffOutput |-> NoBytes]

\* ReadFile returns (the deferred unlock runs), and assertBytes compares.
ReadFileReturn(t) ==
    /\ pc[t] = "r_unlock"
    /\ rw' = [rw EXCEPT ![LockOf(t)].r = @ \ {t}]
    /\ LET v == VerifyResult(call[t].err, call[t].data, call[t].actual)
       IN  call' = [call EXCEPT ![t].did = v.did,
                                ![t].outcome = v.outcome,
                                ![t].diffOutput = v.diffOutput]
    /\ pc' = [pc EXCEPT ![t] = "done"]
    /\ UNCHANGED <<mgrOf, ncalls, nfaults, mu, locks, dirExists, names, disk, fd, hist, last>>
    /\ StoreFrame

\* The assertion is over: it returned or ended the test (t.Fatalf), and the
\* goroutine goes on.
Finish(t) ==
    /\ pc[t] = "done"
    /\ call' = [call EXCEPT ![t] = NoCall]
    /\ pc' = [pc EXCEPT ![t] = "idle"]
    /\ UNCHANGED <<mgrOf, ncalls, nfaults, mu, locks, rw, dirExists, names, disk, fd, hist, last>>
    /\ StoreFrame

Next ==
    \E t \in Procs :
        \/ Assertion(t)
        \/ LockRegistry(t)
        \/ LookupLock(t)
        \/ UnlockRegistry(t)
        \/ AcquireFileLock(t)
        \/ MkdirAll(t)
        \/ CreateTmp(t)
        \/ WriteTmp(t)
        \/ Rename(t)
        \/ RemoveTmp(t)
        \/ WriteFileReturn(t)
        \/ OpenGolden(t)
        \/ ReadGolden(t)
        \/ ReadFileReturn(t)
        \/ Finish(t)

Spec == Init /\ [][Next]_vars

\* Calls of the Manager on a.golden and on a.golden.tmp.
AliasNext ==
    \E t \in Procs :
        \/ ManagerCall(t)
        \/ LockRegistry(t)
        \/ LookupLock(t)
        \/ UnlockRegistry(t)
        \/ AcquireFileLock(t)
        \/ MkdirAll(t)
        \/ CreateTmp(t)
        \/ WriteTmp(t)
        \/ Rename(t)
        \/ RemoveTmp(t)
        \/ WriteFileReturn(t)
        \/ OpenGolden(t)
        \/ ReadGolden(t)
        \/ ReadFileReturn(t)
        \/ Finish(t)

SpecAlias == Init /\ [][AliasNext]_vars

\* The steps of goroutine t's call that wait for nothing.
Running(t) ==
    \/ LookupLock(t)
    \/ UnlockRegistry(t)
    \/ MkdirAll(t)
    \/ CreateTmp(t)
    \/ WriteTmp(t)
    \/ Rename(t)
    \/ RemoveTmp(t)
    \/ WriteFileReturn(t)
    \/ OpenGolden(t)
    \/ ReadGolden(t)
    \/ ReadFileReturn(t)
    \/ Finish(t)

\* The scheduler runs every goroutine that can run; sync.Mutex and
\* sync.RWMutex let no waiter starve.
Fairness ==
    \A t \in Procs :
        /\ WF_vars(Running(t))
        /\ SF_vars(LockRegistry(t))
        /\ SF_vars(AcquireFileLock(t))

MaxLiveCalls == 2    \* calls started in a run in which termination is checked

\* The runs in which termination is checked: MaxLiveCalls calls, all of the
\* value "hi" (the bytes written do not decide who waits for whom).
LiveScope ==
    /\ ncalls <= MaxLiveCalls
    /\ \A t \in Procs : call[t].kind # "none" => call[t].value = Str(<<104, 105>>)

LiveNext == Next /\ LiveScope'

FairSpec == Init /\ [][LiveNext]_vars /\ Fairness

-----------------------------------------------------------------------------
(* Claims about assertions and the store, checked under Spec.              *)

\* Goroutine t is inside the critical section of its ReadFile or WriteFile:
\* between lockFile's return and the deferred unlock.
InCritical(t) ==
    pc[t] \in {"w_mkdir", "w_create", "w_write", "w_rename", "w_remove", "w_unlock",
               "r_open", "r_read", "r_unlock"}

\* WriteFile's os.Rename failed.
RenameFailed(err) == Len(err) > 1 /\ err[2] = "os.LinkError"

\* C1: an Assert(N, X) in update mode followed, with no write to the same golden
\* file in between, by an Assert(N, X) in verify mode passes and produces no
\* diff, for every X: whenever a verify call whose ReadFile succeeded follows an
\* update call of the same value, it ends as a pass without diff output.
C1_UpdateThenVerifyPasses ==
    \A t \in Procs :
        (pc[t] = "done" /\ call[t].kind = "verify" /\ call[t].follows = call[t].value
           /\ call[t].err = NoErr)
        => (call[t].outcome = "Pass" /\ call[t].diffOutput = NoBytes)

\* C2: in verify mode, when no file exists at the golden path, the assertion
\* ends with the not-found outcome and not with the generic read failure.
C2_MissingFileIsNotFound ==
    \A t \in Procs :
        (pc[t] = "done" /\ call[t].kind = "verify" /\ call[t].missing)
        => call[t].outcome = "NotFound"

C4_WritersExclude ==
    \A t, u \in Procs :
        (t # u /\ InCritical(t) /\ InCritical(u) /\ call[t].filename = call[u].filename)
        => (call[t].kind = "verify" /\ call[u].kind = "verify")

\* C5: there is at most one lock object per golden file path, whatever Golden
\* instance (and so whatever Manager) the callers reach the path through.
C5_OneLockPerPath ==
    \A f \in Paths : Cardinality({m \in Managers : f \in locks[m]}) <= 1

\* C6: a ReadFile of P returns the complete content P had before a write or
\* the complete data of some WriteFile of P, never a partly written, truncated
\* or mixed sequence of bytes.
C6_ReadIsComplete ==
    \A t \in Procs :
        (pc[t] \in {"r_unlock", "done"} /\ call[t].kind = "verify" /\ call[t].err = NoErr)
        => call[t].data \in hist[call[t].filename]

\* C7: after a WriteFile(P, d) returned without error, a ReadFile(P) with no
\* other WriteFile of P in between finds the file (the directory was created)
\* and, unless the environment fails the read, returns exactly d; also while
\* other goroutines write and read other paths.
C7_ReadAfterWrite ==
    \A t \in Procs :
        (pc[t] \in {"r_unlock", "done"} /\ call[t].kind = "verify"
           /\ call[t].follows # None)
        => /\ ~call[t].missing
           /\ dirExists
           /\ call[t].err = NoErr => call[t].data = formatValue(call[t].follows)

\* A ReadFile returned the two bytes written before it while another goroutine
\* is inside a WriteFile of the other path.
C7_Witness ==
    \E t, u \in Procs :
        /\ pc[t] = "r_unlock" /\ call[t].kind = "verify" /\ call[t].err = NoErr
        /\ call[t].follows = Str(<<104, 105>>) /\ call[t].data = <<104, 105>>
        /\ u # t /\ mgrOf[u] = mgrOf[t] /\ pc[u] \in {"w_write", "w_rename"}
        /\ call[u].filename # call[t].filename

\* C8, at WriteFile's return (no WriteFile through another Manager having run
\* beside it): after success the temporary file does not exist; after a failed
\* rename it does not exist either and the error is returned.
C8_AtReturn ==
    \A t \in Procs :
        (call[t].kind = "update" /\ ~call[t].foreign) =>
            /\ (pc[t] = "w_unlock" /\ (call[t].err = NoErr \/ RenameFailed(call[t].err)))
                  => names[TmpOf(call[t].filename)] = 0
            /\ (pc[t] = "done" /\ RenameFailed(call[t].err))
                  => call[t].outcome = "WriteFailed"

\* C8, during WriteFile: no step taken while the WriteFile is in its critical
\* section changes the content at P, except its own rename when it succeeds.
C8_ContentKept ==
    \A t \in Procs :
        (call[t].kind = "update" /\ InCritical(t) /\ ~call[t].foreign
           /\ ~(pc[t] = "w_rename" /\ pc'[t] = "w_unlock"))
        => Content(call[t].filename)' = Content(call[t].filename)

C22_PathsDoNotBlockEachOther ==
    /\ \A m \in Managers :
          mu[m] # 0 => (mgrOf[mu[m]] = m /\ pc[mu[m]] \in {"lf_get", "lf_unmu"})
    /\ \A t \in Procs :
          (pc[t] = "lf_lock" \/ InCritical(t)) => mu[mgrOf[t]] # t
    /\ \A t \in Procs :
          ( /\ pc[t] = "lf_lock"
            /\ \A u \in Procs \ {t} :
                  InCritical(u) => call[u].filename # call[t].filename )
          => ENABLED AcquireFileLock(t)

\* A goroutine holds the lock of one path and is writing its temporary file
\* while another goroutine of the same Manager, having passed the registry,
\* holds the lock of the other path.
C22_Witness ==
    \E t, u \in Procs :
        /\ t # u /\ mgrOf[t] = mgrOf[u]
        /\ call[t].kind = "update" /\ pc[t] = "w_write"
        /\ pc[u] \in {"w_mkdir", "r_open"}
        /\ call[u].filename # call[t].filename
        /\ mu[mgrOf[t]] = 0

\* The step is one of goroutine t's assertion in verify mode.
VerifyStep(t) ==
    /\ pc'[t] # pc[t]
    /\ call[t].kind = "verify" \/ call'[t].kind = "verify"

\* C25: no step of an assertion in verify mode creates, modifies or deletes a
\* file: the directory, the set of existing files and the content of every
\* file, the golden file among them, are after the step what they were.
C25_VerifyLeavesFiles ==
    [][\A t \in Procs :
          VerifyStep(t) =>
              /\ dirExists' = dirExists
              /\ \A n \in FileNames : (names[n] = 0) <=> (names'[n] = 0)
              /\ \A n \in FileNames : Content(n)' = Content(n)]_vars

\* Verify assertions ended as a mismatch over a golden file that still holds
\* "hi", and as a failure over a path where there still is no file.
C25_Witness ==
    \E t, u \in Procs :
        /\ pc[t] = "done" /\ call[t].kind = "verify" /\ call[t].outcome = "Mismatch"
        /\ Content(call[t].filename) = <<104, 105>>
        /\ pc[u] = "done" /\ call[u].kind = "verify" /\ call[u].missing
        /\ call[u].outcome = "ReadFailed"

\* Goroutine t holds no lock of a file and not the registry guard.
HoldsNothing(t) ==
    /\ \A m \in Managers : mu[m] # t
    /\ \A l \in Managers \X StorePaths : rw[l].w # t /\ t \notin rw[l].r

\* Goroutine t waits for the registry guard or for a file's lock that it
\* cannot have now.
Blocked(t) ==
    \/ pc[t] = "lf_mu" /\ mu[mgrOf[t]] # 0
    \/ pc[t] = "lf_lock" /\ ~(IF Exclusive(t) THEN CanLock(rw[LockOf(t)])
                                               ELSE CanRLock(rw[LockOf(t)]))

\* Some goroutine is inside a call and all that are wait for a lock.
Stuck ==
    /\ \E t \in Procs : pc[t] \notin {"idle", "done"}
    /\ \A t \in Procs : pc[t] \notin {"idle", "done"} => Blocked(t)

\* C26, in every state: a call that returned, with or without error, holds
\* no lock, and the goroutines inside calls are never all blocked.
C26_Released ==
    /\ \A t \in Procs : pc[t] \in {"idle", "done"} => HoldsNothing(t)
    /\ ~Stuck

\* C26: under fair scheduling every ReadFile and WriteFile that was called
\* returns; the lock it took is released on every return, and no state is a
\* deadlock.
C26_EveryCallReturns ==
    /\ []C26_Released
    /\ \A t \in Procs : (pc[t] = "lf_mu") ~> (pc[t] = "done")

\* A WriteFile that failed has returned while another goroutine of the same
\* Manager waits for the lock of the same file.
C26_Witness ==
    \E t, u \in Procs :
        /\ t # u /\ mgrOf[t] = mgrOf[u]
        /\ pc[t] = "done" /\ call[t].kind = "update" /\ call[t].err # NoErr
        /\ pc[u] = "lf_lock" /\ call[u].filename = call[t].filename
        /\ HoldsNothing(t)
        /\ Content(call[u].filename) = NoFile

\* The step is one of goroutine t's WriteFile.
WriteStep(t) ==
    /\ call[t].kind = "update"
    /\ pc[t] \notin {"idle", "done"}
    /\ pc'[t] # pc[t] \/ call'[t].off # call[t].off

\* C27: no step of a WriteFile of P changes what a reader would see at any
\* other path Q that callers give to the store, the path P.tmp among them,
\* also while Q is written under its own lock.
C27_WriteChangesOnlyItsPath ==
    [][\A t \in Procs :
          WriteStep(t) =>
              \A q \in StorePaths \ {call[t].filename} : Content(q)' = Content(q)]_vars

====
